---- MODULE Spec2Model ----
(***************************************************************************)
(* Model of the editor's scene panel (src/editor/panels/scene.c): a free-  *)
(* fly camera rendered into an offscreen texture that is shown inside an   *)
(* immediate-mode GUI window.                                              *)
(*                                                                         *)
(* Floating point values are modelled in fixed point:                      *)
(*   angles  (yaw, pitch)       in 1/AngleScale of a degree,               *)
(*   directions (cam_dir)       in 1/TrigScale of a unit,                  *)
(*   positions (cam_pos)        in 1/PosScale of a unit.                   *)
(* Panel sizes are whole pixels (the GUI library floors window sizes).     *)
(***************************************************************************)
EXTENDS Integers, Sequences, FiniteSets, TLC

\* ------------------------------------------------------------------ bounds
\* yaw is not clamped by the code; the model stops rotating past MaxYaw degrees
MaxYaw == 360
\* the model stops moving the camera further than this (in 1/PosScale units,
\* per axis) from its initial position
MaxDrift == 1
\* entity ids of the world are 0..MaxEntity
MaxEntity == 0
\* pointer deltas (pixels) carried by the events of the model
XRel == {-900, 0, 900}
YRel == {-890, 0, 1780}
\* window sizes the GUI can report
PanelSizes == {<<640, 480>>, <<800, 600>>}

\* ------------------------------------------------------- fixed-point scales
AngleScale == 100
TrigScale == 10000
PosScale == 4

\* ------------------------------------------------------- program constants
\* const float cam_speed = 0.25, in hundredths
cam_speed == 25
\* mouse sensitivity 0.1, in tenths
Sensitivity == 1
\* pitch limit, degrees
PitchLimit == 89
\* field of view passed to the renderer
Fov == 90
\* GL name of the default framebuffer
DefaultFbo == 0
\* names glGenFramebuffers / glGenTextures hand out (non-zero)
GenName == 1

W == "W"
A == "A"
S == "S"
D == "D"
MoveKeys == {W, A, S, D}

MOUSEMOTION == "SDL_MOUSEMOTION"
KEYDOWN == "SDL_KEYDOWN"
EventTypes == {MOUSEMOTION, KEYDOWN}

\* ------------------------------------------------------------- arithmetic
\* a / b rounded to the nearest integer, b > 0
RDiv(a, b) == (2 * a + b) \div (2 * b)

Abs(x) == IF x < 0 THEN -x ELSE x

RECURSIVE SqrtSearch(_, _, _)
SqrtSearch(n, lo, hi) ==
  IF lo >= hi THEN lo
  ELSE LET mid == (lo + hi + 1) \div 2
       IN  IF mid * mid <= n THEN SqrtSearch(n, mid, hi)
                             ELSE SqrtSearch(n, lo, mid - 1)

\* floor of the square root of n, 0 <= n <= (2 * TrigScale)^2
ISqrt(n) == SqrtSearch(n, 0, 2 * TrigScale)

\* sin of 0..90 degrees, times TrigScale
SinTab ==
  << 0, 175, 349, 523, 698, 872, 1045, 1219, 1392, 1564, 1736, 1908, 2079,
     2250, 2419, 2588, 2756, 2924, 3090, 3256, 3420, 3584, 3746, 3907, 4067, 4226,
     4384, 4540, 4695, 4848, 5000, 5150, 5299, 5446, 5592, 5736, 5878, 6018, 6157,
     6293, 6428, 6561, 6691, 6820, 6947, 7071, 7193, 7314, 7431, 7547, 7660, 7771,
     7880, 7986, 8090, 8192, 8290, 8387, 8480, 8572, 8660, 8746, 8829, 8910, 8988,
     9063, 9135, 9205, 9272, 9336, 9397, 9455, 9511, 9563, 9613, 9659, 9703, 9744,
     9781, 9816, 9848, 9877, 9903, 9925, 9945, 9962, 9976, 9986, 9994, 9998, 10000 >>

\* sin of an angle in the first quadrant (0 .. 90 * AngleScale)
SinQ(a) ==
  LET d == a \div AngleScale
      f == a % AngleScale
  IN  IF f = 0 THEN SinTab[d + 1]
      ELSE SinTab[d + 1] + RDiv((SinTab[d + 2] - SinTab[d + 1]) * f, AngleScale)

\* sin(glm_rad(a)), a in 1/AngleScale degrees, result times TrigScale
Sin(a) ==
  LET m == a % (360 * AngleScale)
      q == 90 * AngleScale
  IN  IF m <= q THEN SinQ(m)
      ELSE IF m <= 2 * q THEN SinQ(2 * q - m)
      ELSE IF m <= 3 * q THEN -SinQ(m - 2 * q)
      ELSE -SinQ(4 * q - m)

\* cos(glm_rad(a))
Cos(a) == Sin(a + 90 * AngleScale)

\* ------------------------------------------------------------ vectors
Vec3(x, y, z) == <<x, y, z>>
ZeroVec == Vec3(0, 0, 0)

glm_vec3_add(a, b) == Vec3(a[1] + b[1], a[2] + b[2], a[3] + b[3])
glm_vec3_sub(a, b) == Vec3(a[1] - b[1], a[2] - b[2], a[3] - b[3])

\* direction v times cam_speed, as a displacement of cam_pos
glm_vec3_scale(v) ==
  Vec3(RDiv(v[1] * cam_speed * PosScale, 100 * TrigScale),
       RDiv(v[2] * cam_speed * PosScale, 100 * TrigScale),
       RDiv(v[3] * cam_speed * PosScale, 100 * TrigScale))

Norm2(v) == v[1] * v[1] + v[2] * v[2] + v[3] * v[3]

\* a normalize whose zero-norm test is inverted
NormalizeInverted(v) ==
  LET norm == ISqrt(Norm2(v))
  IN  IF norm # 0 THEN ZeroVec
      ELSE v

\* cglm: a zero-norm vector becomes the zero vector, any other is scaled by 1/norm
glm_vec3_normalize(v) ==
  LET norm == ISqrt(Norm2(v))
  IN  IF norm = 0 THEN ZeroVec
      ELSE Vec3(RDiv(v[1] * TrigScale, norm), RDiv(v[2] * TrigScale, norm),
                RDiv(v[3] * TrigScale, norm))

\* cross product with GLM_YUP = (0, 1, 0), normalized
glm_vec3_crossn(a) == glm_vec3_normalize(Vec3(-a[3], 0, a[1]))

\* lines 41-44: the view direction of yaw / pitch
CamDir(y, p) ==
  glm_vec3_normalize(Vec3(RDiv(Cos(y) * Cos(p), TrigScale),
                          Sin(p),
                          RDiv(Sin(y) * Cos(p), TrigScale)))

\* ------------------------------------------------------------------ state
VARIABLES
  scene_focused,    \* bool scene_focused
  scene_size,       \* ImVec2 scene_size, <<width, height>>
  first_frame,      \* bool first_frame (never read or written by the panel)
  scene_fbo,        \* GL framebuffer name, 0 until scene_init
  scene_tex,        \* GL texture name, 0 until scene_init
  cam_pos,          \* vec3 cam_pos
  cam_dir,          \* vec3 cam_dir
  yaw,              \* float yaw
  pitch,            \* float pitch
  scene_open,       \* extern bool scene_open
  selected_entity,  \* extern int selected_entity
  tex_size,         \* GL: dimensions of the storage of texture scene_tex
  renderer_size,    \* renderer: size set by the last renderer_resize
  bound_fbo,        \* GL: framebuffer currently bound
  rendered,         \* whether scene_render has run since start-up
  last,             \* the entry point that ran last, with its inputs
  calls             \* the library / engine calls it made, in order

vars == <<scene_focused, scene_size, first_frame, scene_fbo, scene_tex, cam_pos,
          cam_dir, yaw, pitch, scene_open, selected_entity, tex_size,
          renderer_size, bound_fbo, rendered, last, calls>>

CamStart == Vec3(0, 3 * PosScale, 0)

\* events the model delivers: type, relative pointer motion
Events == [type : EventTypes, xrel : XRel, yrel : YRel]

Entities == 0 .. MaxEntity

\* get_entity: the entity record of an id of the world
get_entity(id) == [name |-> "entity", id |-> id]

\* lines 3-14: the static initializers.  The extern variables are owned by
\* the rest of the editor: the selection starts in Sels, the panel open or not
InitWith(Yaws, Pitches, Sels) ==
  /\ scene_focused = FALSE
  /\ scene_size = <<0, 0>>
  /\ first_frame = TRUE
  /\ scene_fbo = 0
  /\ scene_tex = 0
  /\ cam_pos = CamStart
  /\ cam_dir = ZeroVec
  /\ yaw \in Yaws
  /\ pitch \in Pitches
  /\ scene_open \in BOOLEAN
  /\ selected_entity \in Sels
  /\ tex_size = <<0, 0>>
  /\ renderer_size = <<0, 0>>
  /\ bound_fbo = DefaultFbo
  /\ rendered = FALSE
  /\ last = [op |-> "start"]
  /\ calls = <<>>

\* float yaw = -90.0, float pitch = 0.0
YawStart == -90 * AngleScale
PitchStart == 0 * AngleScale

Init == InitWith({YawStart}, {PitchStart}, {-1})

\* an allocation with a fixed default size
AllocDefault(size) == <<1, 1>>

\* line 21: the storage is allocated with the panel size
AllocSize(size) == size

\* lines 16-25
scene_init ==
  /\ scene_fbo = 0
  /\ scene_fbo' = GenName
  /\ scene_tex' = GenName
  /\ bound_fbo' = GenName
  /\ tex_size' = AllocSize(scene_size)
  /\ last' = [op |-> "init"]
  /\ calls' = << <<"glTexImage2D", tex_size'>> >>
  /\ UNCHANGED <<scene_focused, scene_size, first_frame, cam_pos, cam_dir, yaw,
                 pitch, scene_open, selected_entity, renderer_size, rendered>>

\* a clamp that forgets the lower limit
ClampUpperOnly(p) ==
  IF p > PitchLimit * AngleScale THEN PitchLimit * AngleScale ELSE p

\* lines 32-37
ClampPitch(p) ==
  IF p > PitchLimit * AngleScale THEN PitchLimit * AngleScale
  ELSE IF p < -PitchLimit * AngleScale THEN -PitchLimit * AngleScale
  ELSE p

\* pointer delta (pixels) times the sensitivity, as an angle
Rel(d) == (d * Sensitivity * AngleScale) \div 10

\* a test that forgets the focus flag
RotatesUnfocused(e, focused, lmb) == e.type = MOUSEMOTION /\ lmb

\* line 28
Rotates(e, focused, lmb) == e.type = MOUSEMOTION /\ focused /\ lmb

\* pitch grows with yrel
PitchAdded(p, e) == p + Rel(e.yrel)

\* line 30
PitchMoved(p, e) == p - Rel(e.yrel)

\* line 29
YawMoved(y, e) == y + Rel(e.xrel)

\* lines 27-38; lmb is SDL_GetMouseState(0, 0) & SDL_BUTTON_LMASK
scene_processevent(e, lmb) ==
  LET rot == Rotates(e, scene_focused, lmb)
      y1  == IF rot THEN YawMoved(yaw, e) ELSE yaw
      p1  == IF rot THEN PitchMoved(pitch, e) ELSE pitch
  IN  /\ scene_fbo # 0
      /\ Abs(y1) <= MaxYaw * AngleScale
      /\ yaw' = y1
      /\ pitch' = ClampPitch(p1)
      /\ last' = [op |-> "event", e |-> e, lmb |-> lmb]
      /\ calls' = <<>>
      /\ UNCHANGED <<scene_focused, scene_size, first_frame, scene_fbo, scene_tex,
                     cam_pos, cam_dir, scene_open, selected_entity, tex_size,
                     renderer_size, bound_fbo, rendered>>

\* a movement that ignores the focus flag
MovesAlways(focused) == TRUE

\* line 45
Moves(focused) == focused

\* lines 45-66: the camera position after the held keys are applied
Moved(pos, dir, keys, focused) ==
  IF ~Moves(focused) THEN pos
  ELSE LET fwd  == glm_vec3_scale(dir)
           side == glm_vec3_scale(glm_vec3_crossn(dir))
           p1 == IF W \in keys THEN glm_vec3_add(pos, fwd) ELSE pos
           p2 == IF S \in keys THEN glm_vec3_sub(p1, fwd) ELSE p1
           p3 == IF A \in keys THEN glm_vec3_sub(p2, side) ELSE p2
           p4 == IF D \in keys THEN glm_vec3_add(p3, side) ELSE p3
       IN  p4

Drift(pos) ==
  LET d == glm_vec3_sub(pos, CamStart)
  IN  IF Abs(d[1]) >= Abs(d[2]) /\ Abs(d[1]) >= Abs(d[3]) THEN Abs(d[1])
      ELSE IF Abs(d[2]) >= Abs(d[3]) THEN Abs(d[2]) ELSE Abs(d[3])

\* a render call that is handed the position from before the movement
PosBefore(old, new) == old

\* line 72: renderer_render is handed cam_pos as the movement left it
PosPassed(old, new) == new

\* an update that keeps the texture at its old size
TexStale(old, size) == old

\* line 69
TexResized(old, size) == size

\* lines 40-74; keys is SDL_GetKeyboardState
scene_update(keys) ==
  LET dir == CamDir(yaw, pitch)
      pos == Moved(cam_pos, dir, keys, scene_focused)
  IN  /\ scene_fbo # 0
      /\ Drift(pos) <= MaxDrift
      /\ cam_dir' = dir
      /\ cam_pos' = pos
      /\ tex_size' = TexResized(tex_size, scene_size)
      /\ renderer_size' = scene_size
      /\ bound_fbo' = DefaultFbo
      /\ last' = [op |-> "update", keys |-> keys]
      /\ calls' = << <<"glTexImage2D", tex_size'>>,
                     <<"renderer_resize", scene_size>>,
                     <<"renderer_render",
                       <<scene_fbo, PosPassed(cam_pos, pos), dir, Fov,
                         scene_size[1], scene_size[2], selected_entity, TRUE>> >>,
                     <<"glBindFramebuffer", <<DefaultFbo>> >> >>
      /\ UNCHANGED <<scene_focused, scene_size, first_frame, scene_fbo, scene_tex,
                     yaw, pitch, scene_open, selected_entity, rendered>>

\* an overlay that looks the entity up whatever the selection is
LooksUpAlways(sel) == TRUE

\* line 84
LooksUp(sel) == sel >= 0

\* lines 83-89: the overlay's calls
Overlay(sel) ==
  IF LooksUp(sel)
  THEN << <<"get_entity", <<sel>> >>,
          <<"igText", <<"%s (%i)", get_entity(sel).name, get_entity(sel).id>> >> >>
  ELSE << <<"igText", <<"No entity selected.">> >> >>

\* a panel that records size and focus although igBegin reported it hidden
DrawsAlways(visible) == TRUE

\* line 79: the window body runs when igBegin returns true
Draws(visible) == visible

\* lines 76-94.  igBegin clears *p_open when the close button is clicked
\* (close) and returns whether the window is visible; size and focused are
\* what igGetWindowSize and igIsWindowFocused report
scene_render(close, visible, size, focused) ==
  /\ scene_fbo # 0
  /\ rendered' = TRUE
  /\ IF scene_open
     THEN /\ scene_open' = ~close
          /\ IF Draws(visible)
             THEN /\ scene_size' = size
                  /\ scene_focused' = focused
                  /\ calls' = << <<"igBegin", <<visible>> >>,
                                 <<"igImage", <<scene_tex, size>> >> >>
                               \o Overlay(selected_entity)
             ELSE /\ calls' = << <<"igBegin", <<visible>> >> >>
                  /\ UNCHANGED <<scene_size, scene_focused>>
          /\ last' = [op |-> "render", open |-> TRUE, close |-> close,
                      visible |-> visible, size |-> size, focused |-> focused]
     ELSE /\ ~close /\ ~visible /\ ~focused /\ size = <<0, 0>>
          /\ calls' = <<>>
          /\ last' = [op |-> "render", open |-> FALSE, close |-> close,
                      visible |-> visible, size |-> size, focused |-> focused]
          /\ UNCHANGED <<scene_open, scene_size, scene_focused>>
  /\ UNCHANGED <<first_frame, scene_fbo, scene_tex, cam_pos, cam_dir, yaw, pitch,
                 selected_entity, tex_size, renderer_size, bound_fbo>>

\* the rest of the editor writes the extern variables: it reopens the panel
\* and changes the selection
editor_external(open, sel) ==
  /\ scene_fbo # 0
  /\ open \/ ~scene_open
  /\ <<open, sel>> # <<scene_open, selected_entity>>
  /\ scene_open' = open
  /\ selected_entity' = sel
  /\ UNCHANGED <<scene_focused, scene_size, first_frame, scene_fbo, scene_tex,
                 cam_pos, cam_dir, yaw, pitch, tex_size, renderer_size, bound_fbo,
                 rendered, last, calls>>

ProcessEvents(Evs) == \E e \in Evs, lmb \in BOOLEAN : scene_processevent(e, lmb)

Update(KeySets) == \E keys \in KeySets : scene_update(keys)

Render(Sizes) ==
  \E close \in BOOLEAN, visible \in BOOLEAN, size \in Sizes \cup {<<0, 0>>},
     focused \in BOOLEAN :
    /\ visible /\ scene_open => size \in Sizes
    /\ ~visible => size = <<0, 0>> /\ ~focused
    /\ scene_render(close, visible, size, focused)

External(Sels) == \E open \in BOOLEAN, sel \in Sels : editor_external(open, sel)

OneSize == {<<640, 480>>}
NoKeys == {{}}
NoSelection == {-1}
Selections == {-1} \cup Entities

\* --- rotation: the entry points in any order after scene_init, every event
Next ==
  \/ scene_init
  \/ ProcessEvents(Events)
  \/ Update(NoKeys)
  \/ Render(OneSize)
  \/ External(NoSelection)

Spec == Init /\ [][Next]_vars

\* --- movement: the entry points in any order, every combination of keys
TurnEvents == [type : {MOUSEMOTION}, xrel : {900}, yrel : {-890}]

MoveNext ==
  \/ scene_init
  \/ ProcessEvents(TurnEvents)
  \/ Update(SUBSET MoveKeys)
  \/ Render(OneSize)
  \/ External(NoSelection)

MoveSpec == Init /\ [][MoveNext]_vars

\* --- the application loop: scene_init, then every frame the pending events,
\* scene_update, scene_render
LifeEvents == [type : {MOUSEMOTION}, xrel : {900}, yrel : {0}]
LifeKeys == {{}, {W}}

LifeNext ==
  \/ scene_init
  \/ last.op \in {"init", "event", "render"} /\ ProcessEvents(LifeEvents)
  \/ last.op \in {"init", "event", "render"} /\ Update(LifeKeys)
  \/ last.op = "update" /\ Render(PanelSizes)
  \/ External(Selections)

LifeInit == InitWith({YawStart}, {PitchStart}, Selections)

LifeSpec == LifeInit /\ [][LifeNext]_vars

\* --- the view direction over a grid of angles
\* yaw every 15 degrees over a full turn, pitch every 4.45 degrees up to the limits
YawGrid == {YawStart + k * 15 * AngleScale : k \in -12 .. 12}
PitchGrid == {p \in -PitchLimit * AngleScale .. PitchLimit * AngleScale : p % 445 = 0}

DirNext ==
  \/ scene_init
  \/ ProcessEvents(LifeEvents)
  \/ Update(NoKeys)
  \/ Render(OneSize)
  \/ External(NoSelection)

DirInit == InitWith(YawGrid, PitchGrid, NoSelection)

DirSpec == DirInit /\ [][DirNext]_vars

TypeOK ==
  /\ scene_focused \in BOOLEAN
  /\ scene_size \in PanelSizes \cup {<<0, 0>>}
  /\ yaw \in Int /\ pitch \in Int
  /\ selected_entity \in Selections

\* ------------------------------------------------------------------ claims
Lo == -PitchLimit * AngleScale
Hi == PitchLimit * AngleScale

\* the step just taken is a call of the entry point, with the inputs it records
EventStep == last'.op = "event" /\ scene_processevent(last'.e, last'.lmb)
UpdateStep == last'.op = "update" /\ scene_update(last'.keys)
RenderStep ==
  /\ last'.op = "render"
  /\ scene_render(last'.close, last'.visible, last'.size, last'.focused)

\* how often the last entry point called f, and with what
Count(f) == Cardinality({i \in DOMAIN calls : calls[i][1] = f})
Called(f, args) == \E i \in DOMAIN calls : calls[i][1] = f /\ calls[i][2] = args

\* C1: after every call of an entry point, in any order and with any event,
\* pitch lies in the closed range [-89, 89] degrees.
C1_PitchInRange == Lo <= pitch /\ pitch <= Hi

\* C1 witness: a pointer motion that would have taken pitch from 0 to -178
\* degrees was processed and pitch was clamped to -89
C1_Witness ==
  /\ last.op = "event" /\ last.e.type = MOUSEMOTION /\ last.lmb /\ scene_focused
  /\ Rel(last.e.yrel) > 2 * Hi - 1
  /\ pitch = Lo

\* C5: an event that is not a pointer motion, or that arrives while the panel
\* is unfocused or the left button is up, leaves yaw and pitch as they were.
C5_RotatesOnlyWhenAllThree ==
  [][(EventStep
      /\ ~(last'.e.type = MOUSEMOTION /\ scene_focused /\ last'.lmb))
     => (yaw' = yaw /\ pitch' = pitch)]_vars

\* C5 witness: a pointer motion with non-zero deltas was processed with the
\* button held while the panel was unfocused, after the camera had turned
C5_Witness ==
  /\ last.op = "event" /\ last.e.type = MOUSEMOTION /\ last.lmb /\ ~scene_focused
  /\ last.e.xrel # 0 /\ last.e.yrel # 0
  /\ yaw # YawStart /\ pitch # PitchStart

\* C6 as stated: a pointer motion (dx, dy) received focused with the button
\* held makes yaw = yaw + 0.1 dx and pitch = clamp(pitch + 0.1 dy).
C6_PitchAddsDelta ==
  [][(EventStep
      /\ last'.e.type = MOUSEMOTION /\ scene_focused /\ last'.lmb)
     => /\ yaw' = yaw + (last'.e.xrel * AngleScale) \div 10
        /\ pitch' = LET p == pitch + (last'.e.yrel * AngleScale) \div 10
                     IN  IF p > Hi THEN Hi ELSE IF p < Lo THEN Lo ELSE p]_vars

\* C6 amended: a pointer motion (dx, dy) received focused with the button
\* held makes yaw = yaw + 0.1 dx, unclamped, and pitch = clamp(pitch - 0.1 dy).
C6_PitchSubtractsDelta ==
  [][(EventStep
      /\ last'.e.type = MOUSEMOTION /\ scene_focused /\ last'.lmb)
     => /\ yaw' = yaw + (last'.e.xrel * AngleScale) \div 10
        /\ pitch' = LET p == pitch - (last'.e.yrel * AngleScale) \div 10
                     IN  IF p > Hi THEN Hi ELSE IF p < Lo THEN Lo ELSE p]_vars

\* C6 witness: a motion of dy = -890 pixels was processed focused with the
\* button held, pitch went up to +89 degrees, and yaw went on to 360 degrees
C6_Witness ==
  /\ last.op = "event" /\ last.e.type = MOUSEMOTION /\ last.lmb /\ scene_focused
  /\ last.e.yrel < 0 /\ last.e.xrel > 0
  /\ pitch = Hi
  /\ yaw = 360 * AngleScale

\* C2: an update of an unfocused panel leaves cam_pos as it was whatever keys
\* are held, and no entry point but scene_update changes cam_pos.
C2_UnfocusedKeepsPosition ==
  [][/\ (UpdateStep /\ ~scene_focused) => cam_pos' = cam_pos
     /\ cam_pos' # cam_pos => UpdateStep]_vars

\* C2 witness: the camera has moved, and the last update ran unfocused with
\* W held
C2_Witness ==
  /\ last.op = "update" /\ last.keys = {W} /\ ~scene_focused
  /\ cam_pos # CamStart

\* C10: only a scene_render of an open panel whose window igBegin reports
\* visible writes scene_focused and scene_size; a render of a closed or
\* collapsed panel leaves both; so a panel that is focused stays focused until
\* such a render, and while it is, updates still move the camera and pointer
\* motions still turn it, open or not.
C10_FocusWrittenOnlyWhenDrawn ==
  [][/\ (scene_focused' # scene_focused \/ scene_size' # scene_size)
          => (RenderStep /\ scene_open /\ last'.visible)
     /\ (RenderStep /\ ~(scene_open /\ last'.visible))
          => (scene_focused' = scene_focused /\ scene_size' = scene_size)
     /\ (UpdateStep /\ scene_focused /\ last'.keys = {W})
          => cam_pos' # cam_pos
     /\ (EventStep /\ scene_focused /\ last'.lmb /\ last'.e.type = MOUSEMOTION
          /\ last'.e.xrel # 0)
          => yaw' # yaw]_vars

\* C10 witness: the panel is closed, still focused, and the last update moved
\* the camera with W held
C10_Witness ==
  /\ last.op = "update" /\ last.keys = {W}
  /\ ~scene_open /\ scene_focused
  /\ Called("renderer_render",
            <<scene_fbo, glm_vec3_add(CamStart, Vec3(0, 0, -1)), cam_dir, Fov,
              scene_size[1], scene_size[2], selected_entity, TRUE>>)

\* tolerance on the squared length of a direction, in 1/TrigScale^2: the
\* truncated norm contributes up to 2 * TrigScale, the rounding of the three
\* components up to 2 * TrigScale more
UnitTol == 4 * TrigScale

\* C4: after every update cam_dir has length 1 (to the resolution of the
\* fixed-point model) and is the direction handed to renderer_render.
C4_UnitDirection ==
  last.op = "update" =>
    /\ Abs(Norm2(cam_dir) - TrigScale * TrigScale) <= UnitTol
    /\ Count("renderer_render") = 1
    /\ \A i \in DOMAIN calls : calls[i][1] = "renderer_render" => calls[i][2][3] = cam_dir

\* C4 witness: an update ran with pitch at the limit and yaw off the axes
C4_Witness ==
  /\ last.op = "update"
  /\ pitch = Hi
  /\ yaw = 45 * AngleScale
  /\ cam_dir[1] > 0 /\ cam_dir[2] > 0 /\ cam_dir[3] > 0

\* C3: in the application loop every update leaves texture and renderer at
\* scene_size, so at every scene_render after the first the texture has the
\* size scene_size held since the previous scene_render.
C3_TargetFollowsPanelSize ==
  [][/\ UpdateStep => (tex_size' = scene_size /\ renderer_size' = scene_size)
     /\ (RenderStep /\ rendered)
          => (tex_size = scene_size /\ renderer_size = scene_size)]_vars

\* C3 witness: a render has just recorded 800x600 while the texture still has
\* the 640x480 an earlier render recorded and the update before this render
\* gave it
C3_Witness ==
  /\ last.op = "render"
  /\ scene_size = <<800, 600>>
  /\ tex_size = <<640, 480>>
  /\ renderer_size = <<640, 480>>

\* C7: every update, focused or not, open or not, moves the camera, then
\* resizes the texture to scene_size, then calls renderer_resize(scene_size),
\* then calls renderer_render once with the moved cam_pos, the new cam_dir,
\* fov 90, the same width and height, selected_entity and true, and returns
\* with framebuffer 0 bound.
C7_UpdateSequence ==
  [][UpdateStep =>
       /\ calls' = << <<"glTexImage2D", scene_size>>,
                      <<"renderer_resize", scene_size>>,
                      <<"renderer_render",
                        <<scene_fbo, cam_pos', cam_dir', 90, scene_size[1],
                          scene_size[2], selected_entity, TRUE>> >>,
                      <<"glBindFramebuffer", <<0>> >> >>
       /\ tex_size' = scene_size
       /\ renderer_size' = scene_size
       /\ bound_fbo' = 0]_vars

\* C7 witness: an update of a closed, focused panel moved the camera with W
\* held and rendered at 800x600
C7_Witness ==
  /\ last.op = "update" /\ last.keys = {W}
  /\ ~scene_open /\ scene_focused
  /\ cam_pos # CamStart
  /\ Called("renderer_resize", <<800, 600>>)
  /\ Count("renderer_render") = 1

\* C8: a scene_render that draws the window shows exactly one overlay text:
\* name and id of the selected entity when selected_entity >= 0, else "No
\* entity selected."; get_entity is called only with a selection >= 0.
C8_OneOverlayText ==
  [][(RenderStep /\ scene_open /\ last'.visible) =>
       (/\ Count("igText")' = 1
        /\ IF selected_entity >= 0
           THEN /\ Called("get_entity", <<selected_entity>>)'
                /\ Called("igText", <<"%s (%i)", get_entity(selected_entity).name,
                                      selected_entity>>)'
           ELSE /\ Count("get_entity")' = 0
                /\ Called("igText", <<"No entity selected.">>)')]_vars

\* C8 witness: a render drew the window with nothing selected
C8_Witness ==
  /\ last.op = "render" /\ last.open /\ last.visible
  /\ Called("igText", <<"No entity selected.">>)
  /\ Count("get_entity") = 0

\* C9: scene_init allocates the texture with the scene_size of that moment;
\* in the application loop that is 0x0, and the first update, before any
\* scene_render, calls renderer_resize and renderer_render with 0 and 0.
C9_FirstFrameZeroSized ==
  /\ last.op = "init" => (tex_size = scene_size /\ tex_size = <<0, 0>>)
  /\ (last.op = "update" /\ ~rendered) =>
       /\ Called("renderer_resize", <<0, 0>>)
       /\ \A i \in DOMAIN calls :
            calls[i][1] = "renderer_render" => (calls[i][2][5] = 0 /\ calls[i][2][6] = 0)
       /\ Count("renderer_render") = 1

\* C9 witness: the first update has run, before any render
C9_Witness ==
  /\ last.op = "update" /\ ~rendered
  /\ tex_size = <<0, 0>>
  /\ Called("glTexImage2D", <<0, 0>>)

====
